---- MODULE Spec2Model ----
(***************************************************************************)
(* Session-aware RAG pipeline of sbg-fastapi: the session store            *)
(* (app/session_manager.py over db/models.py) and the orchestrator         *)
(* answer_question_with_memory (app/rag_core.py), run by concurrent        *)
(* request workers.                                                        *)
(*                                                                         *)
(* Text is modelled as a sequence of tokens, so that string formatting     *)
(* (f-strings, "\n\n".join) is concatenation and can be told apart.        *)
(* The clock datetime.utcnow() is a wall clock of finite resolution: a     *)
(* read returns the previous reading or a later one, never an earlier one. *)
(* ORDER BY created_at leaves the order of rows with equal created_at to   *)
(* the database: every order the database may produce is a possible        *)
(* result.                                                                 *)
(***************************************************************************)
EXTENDS Integers, Sequences, FiniteSets, TLC

\* ------------------------------------------------------------------ bounds
MaxQueries == 2
MaxTicks == 2
MaxCalls == 3
MaxLimit == 2
MaxSteps == 8

\* --------------------------------------------------------- program constants
CHAT_HISTORY_LIMIT == 6
\* session_id: Optional[str] = None; None and "" are both falsy in line 12
NoId == 0
\* an id the client made up: no uuid4() call ever returns it
UnknownId == 0 - 1

\* the two request workers whose interleavings are explored
Workers == {"w1", "w2"}
Questions == {<<"q1">>, <<"q2">>}
Answers == {<<"a1">>}
Roles == {"user", "assistant"}

\* chunks the search index may return (content, filename, chunk_id)
ChunkA == [filename |-> "a.pdf", chunk_id |-> "0", content |-> "alpha"]
ChunkB == [filename |-> "b.pdf", chunk_id |-> "7", content |-> "beta"]
DocLists == {<< >>, <<ChunkB, ChunkA>>}

VARIABLES
    sessions,         \* table "sessions": rows in insertion order
    messages,         \* table "messages": rows in insertion order (id = position)
    now,              \* last reading of datetime.utcnow()
    uuidCount,        \* number of uuid4() values drawn so far
    started,          \* number of queries received so far
    pc,               \* per worker: position in the request
    question,         \* per worker: request.query
    request_sid,      \* per worker: request.session_id
    session_id,       \* per worker: local session_id of answer_question_with_memory
    user_msg,         \* per worker: id of the Message row added for the user turn
    history,          \* per worker: local history
    docs,             \* per worker: local docs
    openai_messages,  \* per worker: messages handed to chat.completions.create
    result,           \* per worker: the returned dict, or the failure
    calls,            \* number of direct store calls made (SpecStore)
    ret,              \* outcome of the last direct store call (SpecStore)
    txn,              \* per worker: the pending changes of its db session (SpecTxn)
    endpoint,         \* per worker: the handler serving the request
    db,               \* per worker: the db session SessionLocal() returned: open or closed
    steps,            \* per worker: the calls the orchestrator made, in order
    error,            \* per worker: str(e) of the exception the handler caught
    response,         \* per worker: the HTTP response sent
    log               \* per worker: the last line the handler logged

storeVars == <<sessions, messages, now, uuidCount>>
workerVars == <<started, pc, question, request_sid, session_id, user_msg,
                history, docs, openai_messages, result>>
callVars == <<calls, ret>>
httpVars == <<endpoint, db, steps, error, response, log>>
vars == <<storeVars, workerVars, callVars, txn, httpVars>>

\* ------------------------------------------------------------------ helpers
Min(a, b) == IF a <= b THEN a ELSE b

Range(s) == {s[i] : i \in 1 .. Len(s)}

Reverse(s) == [i \in 1 .. Len(s) |-> s[Len(s) + 1 - i]]

\* the clock's reading when the process starts: later than every reading an
\* earlier run stored
StartTime == CHAT_HISTORY_LIMIT + 2

\* the readings datetime.utcnow() may return after the reading t: the same
\* instant again (the clock's resolution is finite), or a later one
Readings(t) == t .. Min(t + 1, StartTime + MaxTicks)

\* ------------------------------------------------------------ session store
\* db.query(SessionModel).filter_by(session_id=sid): positions of matching rows
SessionRows(tbl, sid) == {i \in 1 .. Len(tbl) : tbl[i].session_id = sid}

SessionIds(tbl) == {tbl[i].session_id : i \in 1 .. Len(tbl)}

\* a lookup that never finds the row (say, filtering on the wrong column)
FoundNever(tbl, sid) == FALSE

\* line 12-14: "if session_id:" and ".first()" finds a row
Found(tbl, sid) == sid # NoId /\ SessionRows(tbl, sid) # {}

\* line 15-16: session.last_active = utcnow(); commit
TouchSession(tbl, sid, t) ==
    LET first == CHOOSE i \in SessionRows(tbl, sid) :
                     \A j \in SessionRows(tbl, sid) : i <= j
    IN  [tbl EXCEPT ![first].last_active = t]

\* line 19: str(uuid.uuid4()): a value no earlier call returned
Uuid4(n) == n + 1

\* a creation that leaves out db.add(session)
AddSessionNotAdded(tbl, new_id, t1, t2) == tbl

\* line 20-26: SessionModel(new_id, created_at, last_active); add; commit
AddSession(tbl, new_id, t1, t2) ==
    Append(tbl, [session_id |-> new_id, created_at |-> t1, last_active |-> t2])

\* save_message line 40-47 with the foreign key of db/models.py line 17: the
\* insert of a row whose session is missing is rejected (IntegrityError) where
\* the database enforces the key (fk) and accepted where it does not
SaveRaises(tbl, fk, sid) == fk /\ SessionRows(tbl, sid) = {}

\* line 34-40: the Message row; id is the autoincrement primary key
NewMessage(msgs, sid, role, content, t) ==
    [id |-> Len(msgs) + 1, session_id |-> sid, role |-> role,
     content |-> content, created_at |-> t]

\* a save that replaces the latest message when it has the same session and role
SaveMessageRowsReplacing(msgs, tbl, fk, sid, role, content, t) ==
    IF SaveRaises(tbl, fk, sid) THEN msgs
    ELSE IF msgs # << >> /\ msgs[Len(msgs)].session_id = sid
                        /\ msgs[Len(msgs)].role = role
         THEN [msgs EXCEPT ![Len(msgs)].content = content,
                           ![Len(msgs)].created_at = t]
         ELSE Append(msgs, NewMessage(msgs, sid, role, content, t))

SaveMessageRows(msgs, tbl, fk, sid, role, content, t) ==
    IF SaveRaises(tbl, fk, sid) THEN msgs
    ELSE Append(msgs, NewMessage(msgs, sid, role, content, t))

\* line 43-45: "if session: session.last_active = utcnow()"
SaveMessageSessions(tbl, fk, sid, t) ==
    IF SessionRows(tbl, sid) = {} THEN tbl ELSE TouchSession(tbl, sid, t)

\* a query that leaves out filter_by(session_id=...)
MessageRowsUnfiltered(msgs, sid) == 1 .. Len(msgs)

\* line 55-56: positions of the messages of a session
MessageRows(msgs, sid) == {i \in 1 .. Len(msgs) : msgs[i].session_id = sid}

\* line 57-59: ORDER BY created_at DESC LIMIT k: every order the database may
\* produce, rows of equal created_at in any order
RECURSIVE DescLimit(_, _, _)
DescLimit(msgs, S, k) ==
    IF k <= 0 \/ S = {} THEN {<< >>}
    ELSE UNION {
           {<<msgs[i]>> \o rest : rest \in DescLimit(msgs, S \ {i}, k - 1)} :
           i \in {x \in S : \A y \in S : msgs[x].created_at >= msgs[y].created_at}}

\* a history that sorts ascending before the limit: the oldest rows, not the latest
RECURSIVE AscLimit(_, _, _)
AscLimit(msgs, S, k) ==
    IF k <= 0 \/ S = {} THEN {<< >>}
    ELSE UNION {
           {<<msgs[i]>> \o rest : rest \in AscLimit(msgs, S \ {i}, k - 1)} :
           i \in {x \in S : \A y \in S : msgs[x].created_at <= msgs[y].created_at}}

get_chat_history_oldest(msgs, sid, limit) ==
    AscLimit(msgs, MessageRows(msgs, sid), limit)

\* a history without reversed(): the latest message first
get_chat_history_latest_first(msgs, sid, limit) ==
    DescLimit(msgs, MessageRows(msgs, sid), limit)

\* line 50-61: the lists get_chat_history may return
get_chat_history(msgs, sid, limit) ==
    {Reverse(s) : s \in DescLimit(msgs, MessageRows(msgs, sid), limit)}

\* a history that checks the session first and raises when it is missing
HistoryRaisesUnknown(tbl, sid) == SessionRows(tbl, sid) = {}

\* line 50-61: get_chat_history never reads the sessions table and has no raise
HistoryRaises(tbl, sid) == FALSE

\* ---------------------------------------------------------- prompt composer
RECURSIVE JoinBlank(_)
\* "\n\n".join(parts)
JoinBlank(parts) ==
    IF parts = << >> THEN << >>
    ELSE IF Len(parts) = 1 THEN parts[1]
    ELSE parts[1] \o <<"\n\n">> \o JoinBlank(Tail(parts))

\* rag_core.py line 189: f"[{d['filename']} – chunk {d['chunk_id']}]\n{d['content']}"
RenderChunk(d) == <<"[", d.filename, " - chunk ", d.chunk_id, "]\n", d.content>>

\* line 186-191
Context(ds) ==
    IF ds # << >> THEN JoinBlank([i \in 1 .. Len(ds) |-> RenderChunk(ds[i])])
    ELSE << >>

\* line 193-197
base_system == <<"You are a compliance-safe assistant. ...">>

\* a prompt that writes the context header whether or not there is context
system_prompt_always_header(ds) ==
    base_system \o <<"\n\nContext from documents:\n">> \o Context(ds)

\* line 199
system_prompt(ds) ==
    IF Context(ds) # << >>
    THEN base_system \o <<"\n\nContext from documents:\n">> \o Context(ds)
    ELSE base_system

\* line 201-203
Compose(ds, hist) ==
    <<[role |-> "system", content |-> system_prompt(ds)]>>
    \o [i \in 1 .. Len(hist) |-> [role |-> hist[i].role, content |-> hist[i].content]]

\* sources that name the best chunk only
SourcesFirstOnly(ds) ==
    IF ds # << >>
    THEN <<<<ds[1].filename, " (chunk ", ds[1].chunk_id, ")">>>>
    ELSE << >>

\* line 218: f"{d['filename']} (chunk {d['chunk_id']})"
Sources(ds) ==
    IF ds # << >>
    THEN [i \in 1 .. Len(ds) |-> <<ds[i].filename, " (chunk ", ds[i].chunk_id, ")">>]
    ELSE << >>

\* -------------------------------------------------- stateless answer_question
\* rag_core.py line 123: the answer returned when retrieval found nothing
NotFoundAnswer == <<"I cannot find this information in the available documents.">>

\* line 132-136
stateless_system_prompt ==
    <<"You are a compliance-safe assistant. Answer strictly using the provided context. ...">>

\* line 138-144
user_prompt(ds, q) ==
    <<"\nContext:\n">> \o Context(ds) \o <<"\n\nQuestion:\n">> \o q \o <<"\n">>

\* line 149-152: the messages handed to chat.completions.create
ComposeStateless(ds, q) ==
    <<[role |-> "system", content |-> stateless_system_prompt],
      [role |-> "user", content |-> user_prompt(ds, q)]>>

\* line 161-167
StructuredSources(ds) ==
    [i \in 1 .. Len(ds) |-> [document |-> ds[i].filename, chunk_id |-> ds[i].chunk_id]]

\* ------------------------------------------------------------- agent facades
\* a dict {"session_id": ..., key: text, "sources": ...}
Dict(sid, key, text, srcs) ==
    [session_id |-> sid, key |-> key, text |-> text, sources |-> srcs]

\* a facade that hands the prefixed text on without the sources
answer_network_guidance_no_sources(res) ==
    Dict(res.session_id, "guidance",
         <<"Network Guidance (based on indexed documents):\n\n">> \o res.answer, << >>)

\* rag_core.py line 231-236, applied to the result of line 230
answer_network_guidance(res) ==
    Dict(res.session_id, "guidance",
         <<"Network Guidance (based on indexed documents):\n\n">> \o res.answer,
         res.sources)

\* line 244-249, applied to the result of line 243
answer_criteria_grid(res) ==
    Dict(res.session_id, "evaluation",
         <<"Criteria Evaluation (based on indexed documents):\n\n">> \o res.answer,
         res.sources)

\* ---------------------------------------------------------------- http layer
\* error texts of the embedding, search and chat providers
ProviderErrors == {<<"401 Access denied: invalid key for https://sbg.openai.azure.com">>}

\* error texts of the database driver
DatabaseErrors == {<<"(sqlite3.OperationalError) database is locked">>}

\* rag_core.py line 84: str() of the RuntimeError raised
EmbeddingError(e) == <<"OpenAI Embeddings (404=wrong endpoint/deployment name): ">> \o e

\* line 104
SearchError(e) == <<"Azure Search (404=wrong index/endpoint): ">> \o e

\* line 157, 213
ChatError(e) == <<"OpenAI Chat (404=wrong endpoint/deployment name): ">> \o e

NoBody == Dict(NoId, "none", << >>, << >>)

NoResponse == [status |-> 0, body |-> NoBody, detail |-> << >>]

NoLog == [level |-> "none", text |-> << >>]

\* main.py line 64, 97, 118: what the handler returns for the orchestrator's res
HandlerResult(ep, res) ==
    CASE ep = "network_agent" -> answer_network_guidance(res)
      [] ep = "criteria_agent" -> answer_criteria_grid(res)
      [] OTHER -> Dict(res.session_id, "answer", res.answer, res.sources)

\* line 74, 106, 127: return result
HttpOk(ep, res) == [status |-> 200, body |-> HandlerResult(ep, res), detail |-> << >>]

\* line 84: detail=f"Internal Server Error: {str(e)}"; line 109, 130: detail=str(e)
ErrorDetail(ep, e) ==
    IF ep = "rag_query" THEN <<"Internal Server Error: ">> \o e ELSE e

\* line 84, 109, 130: raise HTTPException(status_code=500, detail=...)
HttpError(ep, e) == [status |-> 500, body |-> NoBody, detail |-> ErrorDetail(ep, e)]

\* line 65-73, 98-105, 119-126: logger.info("AUDIT_LOG: %s", ...)
SuccessLog(ep, res) == [level |-> "info", text |-> <<"AUDIT_LOG: ", "SUCCESS">>]

\* line 76-83, 108, 129: logger.error(...)
ErrorLog(ep, e) ==
    [level |-> "error",
     text |-> CASE ep = "network_agent" -> <<"Network Agent Error: ">> \o e
                [] ep = "criteria_agent" -> <<"Criteria Agent Error: ">> \o e
                [] OTHER -> <<"AUDIT_LOG: ">> \o e \o <<"ERROR">>]

\* ------------------------------------------------------------------ requests
NoResult == [status |-> "none", session_id |-> NoId, answer |-> << >>, sources |-> << >>]

Failure == [status |-> "error", session_id |-> NoId, answer |-> << >>, sources |-> << >>]

\* The store is durable: at start it is empty, or holds what an earlier run left.
\* SeedStore is the store after three successful queries on one session, every
\* clock reading later than the one before: the session holds as many messages
\* as one history fetch returns.
SeedMessages ==
    [i \in 1 .. CHAT_HISTORY_LIMIT |->
        [id |-> i, session_id |-> Uuid4(0),
         role |-> IF i % 2 = 1 THEN "user" ELSE "assistant",
         content |-> IF i % 2 = 1 THEN <<"q1">> ELSE <<"a1">>,
         created_at |-> i + 1]]

EmptyStore ==
    [sessions |-> << >>, messages |-> << >>, now |-> StartTime, uuidCount |-> 0]

SeedStore ==
    [sessions |-> <<[session_id |-> Uuid4(0), created_at |-> 1,
                     last_active |-> CHAT_HISTORY_LIMIT + 1]>>,
     messages |-> SeedMessages, now |-> StartTime, uuidCount |-> 1]

InitialStores == {EmptyStore, SeedStore}

NoCall == [op |-> "none", sid |-> NoId, limit |-> 0, raised |-> FALSE,
           id |-> NoId, rows |-> << >>]

\* a db session with nothing pending
NoTxn == [at |-> "idle", op |-> "none", sid |-> NoId, found |-> FALSE,
          role |-> "none", content |-> << >>, created_at |-> 0, last_active |-> 0]

Init ==
    /\ \E st \in InitialStores :
         /\ sessions = st.sessions
         /\ messages = st.messages
         /\ now = st.now
         /\ uuidCount = st.uuidCount
    /\ started = 0
    /\ pc = [w \in Workers |-> "idle"]
    /\ question = [w \in Workers |-> << >>]
    /\ request_sid = [w \in Workers |-> NoId]
    /\ session_id = [w \in Workers |-> NoId]
    /\ user_msg = [w \in Workers |-> 0]
    /\ history = [w \in Workers |-> << >>]
    /\ docs = [w \in Workers |-> << >>]
    /\ openai_messages = [w \in Workers |-> << >>]
    /\ result = [w \in Workers |-> NoResult]
    /\ calls = 0
    /\ ret = NoCall
    /\ txn = [w \in Workers |-> NoTxn]
    /\ endpoint = [w \in Workers |-> "none"]
    /\ db = [w \in Workers |-> "none"]
    /\ steps = [w \in Workers |-> << >>]
    /\ error = [w \in Workers |-> << >>]
    /\ response = [w \in Workers |-> NoResponse]
    /\ log = [w \in Workers |-> NoLog]

\* main.py line 61-64, 94-97, 115-118: a worker that is idle or has returned
\* takes a request for handler ep with a query and an optional session_id (none,
\* one the store issued before, or one it never issued); the locals of the
\* earlier request are gone; db = SessionLocal() opens a db session of its own;
\* session_manager.py line 12-14: get_or_create_session looks the id up
Accept(w, ep) ==
    /\ pc[w] \in {"idle", "done", "failed"}
    /\ started < MaxQueries
    /\ \E q \in Questions, sid \in {NoId, UnknownId} \cup SessionIds(sessions) :
         /\ question' = [question EXCEPT ![w] = q]
         /\ request_sid' = [request_sid EXCEPT ![w] = sid]
         /\ pc' = [pc EXCEPT ![w] = IF Found(sessions, sid) THEN "touch" ELSE "create"]
    /\ started' = started + 1
    /\ endpoint' = [endpoint EXCEPT ![w] = ep]
    /\ db' = [db EXCEPT ![w] = "open"]
    /\ session_id' = [session_id EXCEPT ![w] = NoId]
    /\ user_msg' = [user_msg EXCEPT ![w] = 0]
    /\ history' = [history EXCEPT ![w] = << >>]
    /\ docs' = [docs EXCEPT ![w] = << >>]
    /\ openai_messages' = [openai_messages EXCEPT ![w] = << >>]
    /\ result' = [result EXCEPT ![w] = NoResult]
    /\ steps' = [steps EXCEPT ![w] = << >>]
    /\ error' = [error EXCEPT ![w] = << >>]
    /\ response' = [response EXCEPT ![w] = NoResponse]
    /\ log' = [log EXCEPT ![w] = NoLog]
    /\ UNCHANGED <<storeVars, callVars, txn>>

\* main.py line 60-64: POST /rag/query
Receive(w) == Accept(w, "rag_query")

\* main.py line 93-97, 114-118: POST /agents/network, POST /agents/criteria
ReceiveAgent(w) == \E ep \in {"network_agent", "criteria_agent"} : Accept(w, ep)

\* the handler returns res: line 65-74, 98-106, 119-127 and "finally: db.close()"
Returns(w, res) ==
    /\ result' = [result EXCEPT ![w] = res]
    /\ response' = [response EXCEPT ![w] = HttpOk(endpoint[w], res)]
    /\ log' = [log EXCEPT ![w] = SuccessLog(endpoint[w], res)]
    /\ db' = [db EXCEPT ![w] = "closed"]
    /\ pc' = [pc EXCEPT ![w] = "done"]
    /\ UNCHANGED error

\* a handler without "finally": the db session stays open when the call raises
RaisesWithoutClose(w, e) ==
    /\ result' = [result EXCEPT ![w] = Failure]
    /\ error' = [error EXCEPT ![w] = e]
    /\ response' = [response EXCEPT ![w] = HttpError(endpoint[w], e)]
    /\ log' = [log EXCEPT ![w] = ErrorLog(endpoint[w], e)]
    /\ pc' = [pc EXCEPT ![w] = "failed"]
    /\ UNCHANGED db

\* the orchestrator raises e: line 75-84, 107-109, 128-130 and "finally: db.close()"
Raises(w, e) ==
    /\ result' = [result EXCEPT ![w] = Failure]
    /\ error' = [error EXCEPT ![w] = e]
    /\ response' = [response EXCEPT ![w] = HttpError(endpoint[w], e)]
    /\ log' = [log EXCEPT ![w] = ErrorLog(endpoint[w], e)]
    /\ db' = [db EXCEPT ![w] = "closed"]
    /\ pc' = [pc EXCEPT ![w] = "failed"]

\* the orchestrator goes on to position p
Continues(w, p) ==
    /\ pc' = [pc EXCEPT ![w] = p]
    /\ UNCHANGED <<result, error, response, log, db>>

\* rag_core.py line 180, session_manager.py line 15-17: the session was found
Touch(w) ==
    /\ pc[w] = "touch"
    /\ \E t \in Readings(now) :
         /\ sessions' = TouchSession(sessions, request_sid[w], t)
         /\ now' = t
    /\ session_id' = [session_id EXCEPT ![w] = request_sid[w]]
    /\ steps' = [steps EXCEPT ![w] = Append(@, "resolve")]
    /\ Continues(w, "save_user")
    /\ UNCHANGED <<messages, uuidCount, callVars, txn, started, question,
                   request_sid, user_msg, history, docs, openai_messages,
                   endpoint>>

\* rag_core.py line 180, session_manager.py line 19-27: no id given, or none found
Create(w) ==
    /\ pc[w] = "create"
    /\ \E t \in Readings(now) :
         /\ sessions' = AddSession(sessions, Uuid4(uuidCount), t, t)
         /\ now' = t
    /\ uuidCount' = uuidCount + 1
    /\ session_id' = [session_id EXCEPT ![w] = Uuid4(uuidCount)]
    /\ steps' = [steps EXCEPT ![w] = Append(@, "resolve")]
    /\ Continues(w, "save_user")
    /\ UNCHANGED <<messages, callVars, txn, started, question,
                   request_sid, user_msg, history, docs, openai_messages,
                   endpoint>>

\* rag_core.py line 181: save_message(db, session_id, "user", question)
SaveUser(w) ==
    /\ pc[w] = "save_user"
    /\ \E fk \in BOOLEAN : \E t \in Readings(now) :
         /\ messages' = SaveMessageRows(messages, sessions, fk,
                                        session_id[w], "user", question[w], t)
         /\ sessions' = SaveMessageSessions(sessions, fk, session_id[w], t)
         /\ now' = t
         /\ IF SaveRaises(sessions, fk, session_id[w])
            THEN /\ \E e \in DatabaseErrors : Raises(w, e)
                 /\ UNCHANGED user_msg
            ELSE /\ Continues(w, "history")
                 /\ user_msg' = [user_msg EXCEPT ![w] = Len(messages) + 1]
    /\ steps' = [steps EXCEPT ![w] = Append(@, "append_user")]
    /\ UNCHANGED <<uuidCount, callVars, txn, started, question, request_sid,
                   session_id, history, docs, openai_messages, endpoint>>

\* line 183-203: the history is read, retrieve_documents returns chunks and the
\* prompt is composed
Retrieve(w) ==
    /\ pc[w] = "history"
    /\ \E h \in get_chat_history(messages, session_id[w], CHAT_HISTORY_LIMIT) :
       \E ds \in DocLists :
         /\ history' = [history EXCEPT ![w] = h]
         /\ docs' = [docs EXCEPT ![w] = ds]
         /\ openai_messages' = [openai_messages EXCEPT ![w] = Compose(ds, h)]
    /\ steps' = [steps EXCEPT ![w] = @ \o <<"history", "retrieve", "compose">>]
    /\ Continues(w, "generate")
    /\ UNCHANGED <<storeVars, callVars, txn, started, question, request_sid,
                   session_id, user_msg, endpoint>>

\* line 183-184 with line 76-84, 96-104: the history is read, then the embedding
\* or the search raises and retrieve_documents raises RuntimeError
RetrieveFails(w) ==
    /\ pc[w] = "history"
    /\ \E h \in get_chat_history(messages, session_id[w], CHAT_HISTORY_LIMIT) :
         history' = [history EXCEPT ![w] = h]
    /\ steps' = [steps EXCEPT ![w] = @ \o <<"history", "retrieve">>]
    /\ \E e \in ProviderErrors : \E wrapped \in {EmbeddingError(e), SearchError(e)} :
         Raises(w, wrapped)
    /\ UNCHANGED <<storeVars, callVars, txn, started, question, request_sid,
                   session_id, user_msg, docs, openai_messages, endpoint>>

\* line 205-219: generation answers; the assistant turn is saved; the dict is
\* returned to the facade (if any) and to the handler
Generate(w) ==
    /\ pc[w] = "generate"
    /\ \E answer \in Answers : \E fk \in BOOLEAN : \E t \in Readings(now) :
         /\ ~SaveRaises(sessions, fk, session_id[w])
         /\ messages' = SaveMessageRows(messages, sessions, fk,
                                        session_id[w], "assistant", answer, t)
         /\ sessions' = SaveMessageSessions(sessions, fk, session_id[w], t)
         /\ now' = t
         /\ Returns(w, [status |-> "ok", session_id |-> session_id[w],
                        answer |-> answer, sources |-> Sources(docs[w])])
    /\ steps' = [steps EXCEPT ![w] = @ \o <<"generate", "append_assistant">>]
    /\ UNCHANGED <<uuidCount, callVars, txn, started, question, request_sid,
                   session_id, user_msg, history, docs, openai_messages,
                   endpoint>>

\* a generation failure that is tried again instead of raised
GenerateFailsRetried(w) ==
    /\ pc[w] = "generate"
    /\ Len(steps[w]) < MaxSteps
    /\ steps' = [steps EXCEPT ![w] = Append(@, "generate")]
    /\ UNCHANGED <<storeVars, workerVars, callVars, txn, endpoint, db,
                   error, response, log>>

\* line 205-213: chat.completions.create raises; RuntimeError is raised
GenerateFails(w) ==
    /\ pc[w] = "generate"
    /\ steps' = [steps EXCEPT ![w] = Append(@, "generate")]
    /\ \E e \in ProviderErrors : Raises(w, ChatError(e))
    /\ UNCHANGED <<storeVars, callVars, txn, started, question, request_sid,
                   session_id, user_msg, history, docs, openai_messages,
                   endpoint>>

\* line 180-183, 216: the database is unavailable (OperationalError) when the
\* orchestrator resolves the session, appends a turn or reads the history;
\* nothing is committed by the call that raises
DatabaseFails(w) ==
    /\ pc[w] \in {"touch", "create", "save_user", "history", "generate"}
    /\ steps' = [steps EXCEPT ![w] = @ \o
                    CASE pc[w] \in {"touch", "create"} -> <<"resolve">>
                      [] pc[w] = "save_user" -> <<"append_user">>
                      [] pc[w] = "history" -> <<"history">>
                      [] pc[w] = "generate" -> <<"generate", "append_assistant">>]
    /\ \E e \in DatabaseErrors : Raises(w, e)
    /\ UNCHANGED <<storeVars, callVars, txn, started, question, request_sid,
                   session_id, user_msg, history, docs, openai_messages,
                   endpoint>>

\* the locals and the outcome of a call of answer_question(q) by worker w, which
\* uses no db session and no handler
Stateless(w, q, ds, msgs, sts) ==
    /\ pc[w] \in {"idle", "done", "failed"}
    /\ started < MaxQueries
    /\ started' = started + 1
    /\ endpoint' = [endpoint EXCEPT ![w] = "answer_question"]
    /\ question' = [question EXCEPT ![w] = q]
    /\ docs' = [docs EXCEPT ![w] = ds]
    /\ openai_messages' = [openai_messages EXCEPT ![w] = msgs]
    /\ steps' = [steps EXCEPT ![w] = sts]
    /\ request_sid' = [request_sid EXCEPT ![w] = NoId]
    /\ session_id' = [session_id EXCEPT ![w] = NoId]
    /\ user_msg' = [user_msg EXCEPT ![w] = 0]
    /\ history' = [history EXCEPT ![w] = << >>]
    /\ db' = [db EXCEPT ![w] = "none"]
    /\ response' = [response EXCEPT ![w] = NoResponse]
    /\ log' = [log EXCEPT ![w] = NoLog]
    /\ UNCHANGED <<storeVars, callVars, txn>>

\* rag_core.py line 118-172: answer_question(q) returns
AnswerQuestion(w) ==
    \E q \in Questions : \E ds \in DocLists :
        IF ds = << >>
        THEN /\ Stateless(w, q, ds, << >>, <<"retrieve">>)
             /\ result' = [result EXCEPT ![w] =
                             [status |-> "ok", session_id |-> NoId,
                              answer |-> NotFoundAnswer, sources |-> << >>]]
             /\ error' = [error EXCEPT ![w] = << >>]
             /\ pc' = [pc EXCEPT ![w] = "done"]
        ELSE \E answer \in Answers :
             /\ Stateless(w, q, ds, ComposeStateless(ds, q),
                          <<"retrieve", "compose", "generate">>)
             /\ result' = [result EXCEPT ![w] =
                             [status |-> "ok", session_id |-> NoId,
                              answer |-> answer, sources |-> StructuredSources(ds)]]
             /\ error' = [error EXCEPT ![w] = << >>]
             /\ pc' = [pc EXCEPT ![w] = "done"]

\* line 119 with 76-84, 96-104, or line 146-157: answer_question(q) raises
AnswerQuestionFails(w) ==
    \E q \in Questions : \E e \in ProviderErrors :
        /\ \/ /\ Stateless(w, q, << >>, << >>, <<"retrieve">>)
              /\ \E wrapped \in {EmbeddingError(e), SearchError(e)} :
                   error' = [error EXCEPT ![w] = wrapped]
           \/ \E ds \in DocLists \ {<< >>} :
                /\ Stateless(w, q, ds, ComposeStateless(ds, q),
                             <<"retrieve", "compose", "generate">>)
                /\ error' = [error EXCEPT ![w] = ChatError(e)]
        /\ result' = [result EXCEPT ![w] = Failure]
        /\ pc' = [pc EXCEPT ![w] = "failed"]

\* the steps of a request in progress
Step(w) ==
    \/ Touch(w)
    \/ Create(w)
    \/ SaveUser(w)
    \/ Retrieve(w)
    \/ RetrieveFails(w)
    \/ Generate(w)
    \/ GenerateFails(w)

Next ==
    \E w \in Workers :
        \/ Receive(w)
        \/ Step(w)

Spec == Init /\ [][Next]_vars

\* ------------------- one client of the exposed interface, one call at a time
\* the worker that serves a client that calls the three endpoints and
\* answer_question in turn
Client == "w1"

NextHttp ==
    \/ Receive(Client)
    \/ ReceiveAgent(Client)
    \/ Step(Client)
    \/ DatabaseFails(Client)
    \/ AnswerQuestion(Client)
    \/ AnswerQuestionFails(Client)

SpecHttp == Init /\ [][NextHttp]_vars

\* a worker thread that has a step to take takes it: every blocking call returns
\* or raises
SpecHttpFair == SpecHttp /\ WF_vars(Step(Client) \/ DatabaseFails(Client))

\* --------------------------------------------- the session store, called directly
\* get_or_create_session(db, sid) by a single caller
CallGetOrCreate ==
    /\ calls < MaxCalls
    /\ \E sid \in {NoId, UnknownId} \cup SessionIds(sessions) : \E t \in Readings(now) :
         /\ now' = t
         /\ IF Found(sessions, sid)
            THEN /\ sessions' = TouchSession(sessions, sid, t)
                 /\ UNCHANGED uuidCount
                 /\ ret' = [NoCall EXCEPT !.op = "get_or_create_session",
                                          !.sid = sid, !.id = sid]
            ELSE /\ sessions' = AddSession(sessions, Uuid4(uuidCount), t, t)
                 /\ uuidCount' = uuidCount + 1
                 /\ ret' = [NoCall EXCEPT !.op = "get_or_create_session",
                                          !.sid = sid, !.id = Uuid4(uuidCount)]
    /\ calls' = calls + 1
    /\ UNCHANGED <<messages, workerVars, txn, httpVars>>

\* save_message(db, sid, role, content)
CallSaveMessage ==
    /\ calls < MaxCalls
    /\ \E sid \in {UnknownId} \cup SessionIds(sessions) : \E role \in Roles :
       \E content \in Questions : \E fk \in BOOLEAN : \E t \in Readings(now) :
         /\ now' = t
         /\ messages' = SaveMessageRows(messages, sessions, fk, sid, role, content, t)
         /\ sessions' = SaveMessageSessions(sessions, fk, sid, t)
         /\ ret' = [NoCall EXCEPT !.op = "save_message", !.sid = sid,
                                  !.raised = SaveRaises(sessions, fk, sid)]
    /\ calls' = calls + 1
    /\ UNCHANGED <<uuidCount, workerVars, txn, httpVars>>

\* get_chat_history(db, sid, limit)
CallGetChatHistory ==
    /\ calls < MaxCalls
    /\ \E sid \in {UnknownId} \cup SessionIds(sessions) : \E limit \in 1 .. MaxLimit :
       \E rows \in IF HistoryRaises(sessions, sid) THEN {<< >>}
                    ELSE get_chat_history(messages, sid, limit) :
         ret' = [NoCall EXCEPT !.op = "get_chat_history", !.sid = sid,
                               !.limit = limit, !.rows = rows,
                               !.raised = HistoryRaises(sessions, sid)]
    /\ calls' = calls + 1
    /\ UNCHANGED <<storeVars, workerVars, txn, httpVars>>

NextStore ==
    \/ CallGetOrCreate
    \/ CallSaveMessage
    \/ CallGetChatHistory

SpecStore == Init /\ [][NextStore]_vars

\* ------------------------------ the session store, called by concurrent workers
\* Each worker has its own db session. What a call assigns (a clock reading, a
\* new row) is pending in that db session until db.commit() writes it; another
\* worker's call may read the clock and commit in between.

\* get_or_create_session line 12-15: the row is found and the clock is read
ResolveRead(w) ==
    /\ txn[w].at = "idle"
    /\ calls < MaxCalls
    /\ \E sid \in SessionIds(sessions) : \E t \in Readings(now) :
         /\ Found(sessions, sid)
         /\ txn' = [txn EXCEPT ![w] = [NoTxn EXCEPT !.at = "commit",
                        !.op = "get_or_create_session", !.sid = sid,
                        !.found = TRUE, !.last_active = t]]
         /\ now' = t
    /\ calls' = calls + 1
    /\ UNCHANGED <<sessions, messages, uuidCount, workerVars, ret, httpVars>>

\* line 12-14, 19-25: no id or no row; uuid4() and the clock, read twice
CreateRead(w) ==
    /\ txn[w].at = "idle"
    /\ calls < MaxCalls
    /\ \E sid \in {NoId, UnknownId} : \E t1 \in Readings(now) : \E t2 \in Readings(t1) :
         /\ ~Found(sessions, sid)
         /\ txn' = [txn EXCEPT ![w] = [NoTxn EXCEPT !.at = "commit",
                        !.op = "get_or_create_session", !.sid = Uuid4(uuidCount),
                        !.created_at = t1, !.last_active = t2]]
         /\ now' = t2
    /\ uuidCount' = uuidCount + 1
    /\ calls' = calls + 1
    /\ UNCHANGED <<sessions, messages, workerVars, ret, httpVars>>

\* line 16-17, 26-27: db.commit() writes the pending last_active, or the new row
ResolveCommit(w) ==
    /\ txn[w].at = "commit"
    /\ txn[w].op = "get_or_create_session"
    /\ sessions' = IF txn[w].found
                   THEN TouchSession(sessions, txn[w].sid, txn[w].last_active)
                   ELSE AddSession(sessions, txn[w].sid, txn[w].created_at,
                                   txn[w].last_active)
    /\ txn' = [txn EXCEPT ![w] = NoTxn]
    /\ UNCHANGED <<messages, now, uuidCount, workerVars, callVars, httpVars>>

\* save_message line 34-40: the Message with created_at=utcnow() is added
SaveAdd(w) ==
    /\ txn[w].at = "idle"
    /\ calls < MaxCalls
    /\ \E sid \in {UnknownId} \cup SessionIds(sessions) : \E role \in Roles :
       \E content \in Questions : \E t \in Readings(now) :
         /\ txn' = [txn EXCEPT ![w] = [NoTxn EXCEPT !.at = "touch",
                        !.op = "save_message", !.sid = sid, !.role = role,
                        !.content = content, !.created_at = t]]
         /\ now' = t
    /\ calls' = calls + 1
    /\ UNCHANGED <<sessions, messages, uuidCount, workerVars, ret, httpVars>>

\* line 43-45: the session is looked up; "if session:" the clock is read again
SaveTouch(w) ==
    /\ txn[w].at = "touch"
    /\ IF SessionRows(sessions, txn[w].sid) # {}
       THEN \E t \in Readings(now) :
              /\ txn' = [txn EXCEPT ![w].at = "commit", ![w].found = TRUE,
                                    ![w].last_active = t]
              /\ now' = t
       ELSE /\ txn' = [txn EXCEPT ![w].at = "commit"]
            /\ UNCHANGED now
    /\ UNCHANGED <<sessions, messages, uuidCount, workerVars, callVars, httpVars>>

\* line 47: db.commit() writes the message and the pending last_active
SaveCommit(w) ==
    /\ txn[w].at = "commit"
    /\ txn[w].op = "save_message"
    /\ \E fk \in BOOLEAN :
         /\ messages' = SaveMessageRows(messages, sessions, fk, txn[w].sid,
                            txn[w].role, txn[w].content, txn[w].created_at)
         /\ sessions' = IF txn[w].found /\ ~SaveRaises(sessions, fk, txn[w].sid)
                        THEN TouchSession(sessions, txn[w].sid, txn[w].last_active)
                        ELSE sessions
    /\ txn' = [txn EXCEPT ![w] = NoTxn]
    /\ UNCHANGED <<now, uuidCount, workerVars, callVars, httpVars>>

NextTxn ==
    \E w \in Workers :
        \/ ResolveRead(w)
        \/ CreateRead(w)
        \/ ResolveCommit(w)
        \/ SaveAdd(w)
        \/ SaveTouch(w)
        \/ SaveCommit(w)

SpecTxn == Init /\ [][NextTxn]_vars

\* ==================================================================== claims
\* worker w has got its session id back from get_or_create_session
Resolved(w) == pc[w] \in {"save_user", "history", "generate", "done", "failed"}

\* the id worker w sent was in the store when it was looked up (ids are never
\* deleted, and a client sends no id, an unknown id, or one the store holds)
SentExisting(w) == request_sid[w] \in SessionIds(sessions)

\* C1: a call of get_or_create_session (and so of answer_question_with_memory)
\* with an id that is in the store returns exactly that id, and the store holds
\* exactly one session with that id, whatever the other worker does meanwhile.
C1_ExistingIdResolved ==
    \A w \in Workers :
        /\ (pc[w] = "touch" \/ (Resolved(w) /\ SentExisting(w)))
              => Cardinality(SessionRows(sessions, request_sid[w])) = 1
        /\ (Resolved(w) /\ SentExisting(w)) => session_id[w] = request_sid[w]
        /\ (pc[w] = "done" /\ SentExisting(w))
              => result[w].session_id = request_sid[w]

\* both workers have resolved the same existing id
C1_Witness ==
    \E w \in Workers : \E v \in Workers \ {w} :
        /\ pc[w] = "save_user" /\ pc[v] = "save_user"
        /\ SentExisting(w) /\ request_sid[v] = request_sid[w]
        /\ session_id[w] = request_sid[w] /\ session_id[v] = request_sid[w]

\* C2: a call with no id or with an id that is not in the store creates exactly
\* one session under an id no session had; the id later resolves to itself and
\* to no further session; queries sent without an id get pairwise distinct ids.
C2_FreshSessionCreated ==
    /\ Len(sessions) = uuidCount
    /\ \A w \in Workers :
         (Resolved(w) /\ ~SentExisting(w)) =>
            /\ session_id[w] # request_sid[w]
            /\ Cardinality(SessionRows(sessions, session_id[w])) = 1
            /\ \A v \in Workers \ {w} :
                 /\ (Resolved(v) /\ ~SentExisting(v)) => session_id[v] # session_id[w]
                 /\ (Resolved(v) /\ request_sid[v] = session_id[w])
                       => session_id[v] = session_id[w]

\* one query without an id and one with an unknown id have each got a session
C2_Witness ==
    \E w \in Workers : \E v \in Workers \ {w} :
        /\ pc[w] = "done" /\ pc[v] = "done"
        /\ request_sid[w] = NoId /\ request_sid[v] = UnknownId
        /\ session_id[w] # session_id[v]
        /\ {session_id[w], session_id[v]} \subseteq SessionIds(sessions)

Last(s) == s[Len(s)]

\* the messages of the session of worker w, in insertion order
OwnRows(w) == {i \in 1 .. Len(messages) : messages[i].session_id = session_id[w]}

\* the user turn of worker w is the latest row of its session and no other
\* worker has a query in flight on that session
Alone(w) ==
    /\ user_msg[w] # 0
    /\ \A i \in OwnRows(w) : i <= user_msg[w]
    /\ \A v \in Workers \ {w} :
         pc[v] \in {"idle", "done", "failed"} \/ session_id[v] # session_id[w]

\* C3: when retrieval or generation fails, the user message of the query is
\* stored in the resolved session, no assistant message is stored for it, and a
\* history fetch afterwards shows that user turn as the last message.
C3_FailureLeavesUserTurnLast ==
    \A w \in Workers :
        (pc[w] = "failed" /\ Alone(w)) =>
            /\ messages[user_msg[w]].session_id = session_id[w]
            /\ messages[user_msg[w]].role = "user"
            /\ messages[user_msg[w]].content = question[w]
            /\ \A h \in get_chat_history(messages, session_id[w], CHAT_HISTORY_LIMIT) :
                 /\ h # << >>
                 /\ Last(h).role = "user"
                 /\ Last(h).content = question[w]

\* C4: with no other query running on the session, the message sequence handed
\* to the generation model ends with a user message holding the current query.
C4_PromptEndsWithQuery ==
    \A w \in Workers :
        (pc[w] = "generate" /\ Alone(w)) =>
            Last(openai_messages[w]) = [role |-> "user", content |-> question[w]]

\* C5 as claimed: the user turn appended in step 2 is not among the messages
\* the history fetch of step 3 returns.
C5_HistoryExcludesCurrentTurn ==
    \A w \in Workers :
        pc[w] = "generate" =>
            \A i \in 1 .. Len(history[w]) : history[w][i].id # user_msg[w]

\* the messages of the session of w, other than its user turn, stamped at or
\* after that turn
NotOlder(w) ==
    {i \in OwnRows(w) \ {user_msg[w]} :
        messages[i].created_at >= messages[user_msg[w]].created_at}

\* C5 as amended: the history fetch of step 3 reads after the commit of step 2
\* and returns the user turn appended in step 2, whenever fewer than
\* CHAT_HISTORY_LIMIT other messages of the session are stamped at or after it.
C5_HistoryHoldsCurrentTurn ==
    \A w \in Workers :
        (pc[w] = "generate" /\ Cardinality(NotOlder(w)) < CHAT_HISTORY_LIMIT) =>
            \E i \in 1 .. Len(history[w]) : history[w][i] = messages[user_msg[w]]

\* a session that held a full window before the query: the fetch is cut to the
\* limit and still holds the current user turn
C5_Witness ==
    \E w \in Workers :
        /\ pc[w] = "generate"
        /\ Cardinality(OwnRows(w)) > CHAT_HISTORY_LIMIT
        /\ Len(history[w]) = CHAT_HISTORY_LIMIT
        /\ \E i \in 1 .. Len(history[w]) : history[w][i].id = user_msg[w]

\* the query of w is the second on a session whose first query succeeded: the
\* session holds that query's user and assistant turn and the user turn of w
SecondQuery(w) ==
    /\ SentExisting(w)
    /\ user_msg[w] # 0
    /\ \E u, a \in OwnRows(w) :
         /\ OwnRows(w) = {u, a, user_msg[w]}
         /\ u < a /\ a < user_msg[w]
         /\ messages[u].role = "user" /\ messages[a].role = "assistant"

RoleCount(h, role) == Cardinality({i \in 1 .. Len(h) : h[i].role = role})

\* C6: a second query reusing the session_id of a first successful query keeps
\* that session_id, and its history holds exactly 2 user messages and 1
\* assistant message, so the first answer is in the second prompt.
C6_SecondQuerySeesFirstAnswer ==
    \A w \in Workers :
        (pc[w] = "generate" /\ SecondQuery(w)) =>
            /\ session_id[w] = request_sid[w]
            /\ RoleCount(history[w], "user") = 2
            /\ RoleCount(history[w], "assistant") = 1
            /\ \E i \in 1 .. Len(openai_messages[w]) : \E a \in OwnRows(w) :
                 /\ messages[a].role = "assistant"
                 /\ openai_messages[w][i] =
                      [role |-> "assistant", content |-> messages[a].content]

C6_Witness ==
    \E w \in Workers :
        /\ pc[w] = "generate" /\ SecondQuery(w)
        /\ Len(history[w]) = 3
        /\ Len(openai_messages[w]) = 4

\* C7: when retrieval returns zero chunks the query goes on: generation can be
\* called, the system message is the base policy alone, without the context
\* header; once answered, the assistant turn is stored and sources is empty.
C7_EmptyRetrievalStillAnswers ==
    \A w \in Workers :
        /\ (pc[w] = "generate" /\ docs[w] = << >>) =>
              /\ openai_messages[w][1] = [role |-> "system", content |-> base_system]
              /\ "\n\nContext from documents:\n" \notin Range(openai_messages[w][1].content)
              /\ ENABLED Generate(w)
        /\ (pc[w] = "done" /\ docs[w] = << >>) =>
              /\ result[w].status = "ok"
              /\ result[w].sources = << >>
              /\ \E a \in OwnRows(w) :
                   /\ a > user_msg[w]
                   /\ messages[a].role = "assistant"
                   /\ messages[a].content = result[w].answer

C7_Witness ==
    \E w \in Workers :
        /\ pc[w] = "done" /\ docs[w] = << >>
        /\ result[w].status = "ok" /\ result[w].sources = << >>
        /\ Len(history[w]) > 0

\* the messages stored under the session id of the last direct call
CalledRows == {i \in 1 .. Len(messages) : messages[i].session_id = ret.sid}

\* C8: for every session and limit N >= 1, get_chat_history returns at most N
\* messages of the session, oldest first, and when the session holds more than
\* N they are exactly the N most recently appended.
C8_HistoryLastN ==
    (ret.op = "get_chat_history" /\ ret.sid \in SessionIds(sessions)) =>
        /\ Len(ret.rows) <= ret.limit
        /\ \A i \in 1 .. Len(ret.rows) : ret.rows[i].session_id = ret.sid
        /\ \A i, j \in 1 .. Len(ret.rows) :
             i < j => ret.rows[i].created_at <= ret.rows[j].created_at
        /\ Cardinality(CalledRows) > ret.limit =>
             {ret.rows[i].id : i \in 1 .. Len(ret.rows)} =
                {x \in CalledRows :
                    Cardinality({y \in CalledRows : y > x}) < ret.limit}

\* C9: save_message with a session_id that is not in the store fails, stores no
\* message and creates no session.
C9_UnknownSessionRejected ==
    (ret.op = "save_message" /\ ret.sid \notin SessionIds(sessions)) =>
        /\ ret.raised
        /\ CalledRows = {}

LastActiveCoversSession(tbl, msgs) ==
    \A i \in 1 .. Len(tbl) :
        /\ tbl[i].last_active >= tbl[i].created_at
        /\ \A k \in 1 .. Len(msgs) :
             msgs[k].session_id = tbl[i].session_id =>
                tbl[i].last_active >= msgs[k].created_at

\* C11: over every step, the last_active of every session does not decrease,
\* and after the step it is at least the session's created_at and at least the
\* created_at of every message of the session (each resolve and each append
\* having set it to the time of that operation).
C11_LastActiveMonotonic ==
    [][/\ \A i \in 1 .. Len(sessions) :
            sessions'[i].last_active >= sessions[i].last_active
       /\ LastActiveCoversSession(sessions', messages')]_vars

\* the calls of one complete run of the orchestrator, each once, in order
FullRun == <<"resolve", "append_user", "history", "retrieve", "compose",
             "generate", "append_assistant">>

\* the literal a handler puts in front of the orchestrator's answer
Prefix(ep) ==
    CASE ep = "network_agent" -> <<"Network Guidance (based on indexed documents):\n\n">>
      [] ep = "criteria_agent" -> <<"Criteria Evaluation (based on indexed documents):\n\n">>
      [] OTHER -> << >>

\* the key under which a handler returns the text
TextKey(ep) ==
    CASE ep = "network_agent" -> "guidance"
      [] ep = "criteria_agent" -> "evaluation"
      [] OTHER -> "answer"

\* C12: no step changes a stored message, and the step that completes a request
\* of any of the three endpoints has run the orchestrator exactly once and
\* leaves the store as answer_question_with_memory does: the user message of
\* the query and after it one assistant message holding the unprefixed answer,
\* both in the resolved session; the response holds the orchestrator's
\* session_id and sources, and its answer with the endpoint's fixed prefix
\* under guidance / evaluation.
C12_FacadesRunOrchestratorOnce ==
    [][/\ Len(messages') >= Len(messages)
       /\ \A i \in 1 .. Len(messages) : messages'[i] = messages[i]
       /\ (pc[Client] = "generate" /\ pc'[Client] = "done") =>
            /\ steps'[Client] = FullRun
            /\ Len(messages') = Len(messages) + 1
            /\ user_msg[Client] = Len(messages)
            /\ messages[Len(messages)].session_id = session_id[Client]
            /\ messages[Len(messages)].role = "user"
            /\ messages[Len(messages)].content = question[Client]
            /\ messages'[Len(messages')].session_id = session_id[Client]
            /\ messages'[Len(messages')].role = "assistant"
            /\ messages'[Len(messages')].content = result'[Client].answer
            /\ session_id[Client] \in SessionIds(sessions')
            /\ result'[Client].session_id = session_id[Client]
            /\ result'[Client].sources = Sources(docs[Client])
            /\ response'[Client].status = 200
            /\ response'[Client].body.session_id = result'[Client].session_id
            /\ response'[Client].body.sources = result'[Client].sources
            /\ response'[Client].body.key = TextKey(endpoint[Client])
            /\ response'[Client].body.text =
                  Prefix(endpoint[Client]) \o result'[Client].answer]_vars

\* a request to the criteria facade has completed with retrieved chunks, on a
\* store that already held the answer of an earlier request
C12_Witness ==
    /\ pc[Client] = "done"
    /\ endpoint[Client] = "criteria_agent"
    /\ docs[Client] # << >>
    /\ response[Client].body.key = "evaluation"
    /\ response[Client].body.sources = result[Client].sources
    /\ Head(response[Client].body.text) # Head(result[Client].answer)
    /\ \E i \in 1 .. Len(messages) :
         /\ messages[i].role = "assistant"
         /\ i < user_msg[Client]

\* the exception worker w's handler caught came from the embedding, search or
\* chat provider
ProviderFailure(w) ==
    /\ pc[w] = "failed"
    /\ \E e \in ProviderErrors : Range(e) \subseteq Range(error[w])

\* C13: when retrieval or generation raised, the response of the handler (any
\* of the three) is a failure that holds none of the text of the provider's
\* error nor of the exception raised for it; that text is in the log line.
C13_FailureResponseGeneric ==
    \A w \in Workers :
        ProviderFailure(w) =>
            /\ response[w].status = 500
            /\ \A e \in ProviderErrors : Range(e) \cap Range(response[w].detail) = {}
            /\ Range(error[w]) \cap Range(response[w].detail) = {}
            /\ log[w].level = "error"
            /\ Range(error[w]) \subseteq Range(log[w].text)

\* C14: the sources of every successful query have one entry per retrieved
\* chunk, in retrieval order, the i-th naming the i-th chunk's filename and
\* chunk id (as text for the orchestrator and the endpoints, which pass the list
\* on unchanged; as a document / chunk_id pair for answer_question).
C14_SourcesOnePerChunk ==
    \A w \in Workers :
        pc[w] = "done" =>
            /\ Len(result[w].sources) = Len(docs[w])
            /\ \A i \in 1 .. Len(docs[w]) :
                 IF endpoint[w] = "answer_question"
                 THEN /\ result[w].sources[i].document = docs[w][i].filename
                      /\ result[w].sources[i].chunk_id = docs[w][i].chunk_id
                 ELSE /\ result[w].sources[i] =
                            <<docs[w][i].filename, " (chunk ", docs[w][i].chunk_id, ")">>
                      /\ response[w].body.sources = result[w].sources

\* a query through an endpoint has returned the sources of two chunks
C14_Witness ==
    \E w \in Workers :
        /\ pc[w] = "done"
        /\ endpoint[w] = "network_agent"
        /\ Len(docs[w]) = 2
        /\ docs[w][1] # docs[w][2]
        /\ Len(response[w].body.sources) = 2

\* the rows stored under the session id sid, in insertion order
RowsOf(msgs, sid) == {i \in 1 .. Len(msgs) : msgs[i].session_id = sid}

\* before this step the session of the client's query held exactly an orphaned
\* user message o and the user message u of the query, sent again with the same
\* text and the session_id of the failed one
Retried(o, u) ==
    /\ request_sid[Client] = session_id[Client]
    /\ RowsOf(messages, session_id[Client]) = {o, u}
    /\ o < u /\ u = user_msg[Client]
    /\ messages[o].role = "user" /\ messages[o].content = question[Client]
    /\ messages[u].role = "user" /\ messages[u].content = question[Client]

\* C15: the step that completes the retried query leaves the orphaned user
\* message as it was, the retry's user message after it and a new assistant
\* message after both, and a history fetch of the session returns the three in
\* that order, so that it reads user, user, assistant.
C15_RetryAppendsNewPair ==
    [][\A o, u \in 1 .. Len(messages) :
         (pc[Client] = "generate" /\ pc'[Client] = "done" /\ Retried(o, u)) =>
            /\ messages'[o] = messages[o]
            /\ messages'[u] = messages[u]
            /\ RowsOf(messages', session_id[Client]) = {o, u, Len(messages')}
            /\ u < Len(messages')
            /\ messages'[Len(messages')].role = "assistant"
            /\ \A h \in get_chat_history(messages', session_id[Client],
                                         CHAT_HISTORY_LIMIT) :
                 [i \in 1 .. Len(h) |-> h[i].role] = <<"user", "user", "assistant">>]_vars

Handlers == {"rag_query", "network_agent", "criteria_agent"}

\* the request of worker w is being handled
InFlight(w) == pc[w] \in {"touch", "create", "save_user", "history", "generate"}

\* C16: a request handled by rag_query, network_agent or criteria_agent holds an
\* open db session from its start on; it has none open once it has ended, by a
\* response or by a failure of the session resolve, of an append, of retrieval
\* or of generation; and every db session opened is eventually closed.
C16_DbSessionReleased ==
    /\ [](\A w \in Workers :
            /\ InFlight(w) => (endpoint[w] \in Handlers /\ db[w] = "open")
            /\ (pc[w] \in {"done", "failed"} /\ endpoint[w] \in Handlers)
                  => db[w] = "closed"
            /\ db[w] = "open" => InFlight(w))
    /\ \A w \in Workers : (db[w] = "open") ~> (db[w] = "closed")

\* a second request has ended by a failure of the session resolve, its db
\* session closed
C16_Witness ==
    /\ pc[Client] = "failed"
    /\ endpoint[Client] \in Handlers
    /\ steps[Client] = <<"resolve">>
    /\ db[Client] = "closed"
    /\ started = MaxQueries

IsPrefix(s, t) == Len(s) <= Len(t) /\ \A i \in 1 .. Len(s) : s[i] = t[i]

\* the step invokes call c of worker w's query
Invokes(w, c) == c \notin Range(steps[w]) /\ c \in Range(steps'[w])

\* C17: after every step the calls a query has made are a beginning of resolve,
\* append user, history, retrieve, compose, generate, append assistant, each
\* once; when retrieval or generation is invoked the query's user message is
\* already in the store; an assistant message is stored only by the step in
\* which a query's generation returns, after all the other calls; and a query
\* that has failed makes no further call.
C17_StepsOnceInOrder ==
    [][/\ \A w \in Workers :
            /\ IsPrefix(steps'[w], FullRun)
            /\ (Invokes(w, "retrieve") \/ Invokes(w, "generate")) =>
                  /\ user_msg[w] \in 1 .. Len(messages)
                  /\ messages[user_msg[w]].session_id = session_id[w]
                  /\ messages[user_msg[w]].role = "user"
                  /\ messages[user_msg[w]].content = question[w]
            /\ pc[w] = "failed" => (steps'[w] = steps[w] \/ steps'[w] = << >>)
       /\ \A i \in 1 .. Len(messages') :
            (i > Len(messages) /\ messages'[i].role = "assistant") =>
               \E w \in Workers :
                  /\ pc[w] = "generate" /\ pc'[w] = "done"
                  /\ steps'[w] = FullRun
                  /\ messages'[i].session_id = session_id[w]
                  /\ messages'[i].content = result'[w].answer
                  /\ user_msg[w] < i]_vars

\* one query has run to its end and one has failed in generation, which was
\* invoked once; both on one session
C17_Witness ==
    \E w \in Workers : \E v \in Workers \ {w} :
        /\ pc[w] = "done" /\ steps[w] = FullRun
        /\ pc[v] = "failed"
        /\ steps[v] = <<"resolve", "append_user", "history", "retrieve",
                        "compose", "generate">>
        /\ session_id[v] = session_id[w]
        /\ user_msg[v] # 0 /\ user_msg[w] # 0

\* C18: the messages get_chat_history returns for a session that carry the same
\* created_at are in the order they were inserted, and of the messages with the
\* same created_at at which the limit cuts, the later-inserted ones are kept.
C18_TiesByInsertionOrder ==
    (ret.op = "get_chat_history" /\ ret.sid \in SessionIds(sessions)) =>
        /\ \A i, j \in 1 .. Len(ret.rows) :
             (i < j /\ ret.rows[i].created_at = ret.rows[j].created_at)
                => ret.rows[i].id < ret.rows[j].id
        /\ \A i \in 1 .. Len(ret.rows) : \A x \in CalledRows :
             (messages[x].created_at = ret.rows[i].created_at /\ x > ret.rows[i].id)
                => \E j \in 1 .. Len(ret.rows) : ret.rows[j].id = x

\* the query of worker v has stored its user turn and has not ended
TurnInFlight(v) == pc[v] \in {"history", "generate"} /\ user_msg[v] # 0

\* the history worker w read holds the message with id n
Read(w, n) == \E i \in 1 .. Len(history[w]) : history[w][i].id = n

\* of the messages worker w read, the one with id n is the only latest
OnlyLatestRead(w, n) ==
    /\ Read(w, n)
    /\ \A i \in 1 .. Len(history[w]) :
         history[w][i].id # n => history[w][i].created_at < messages[n].created_at

\* C19: nothing keeps two queries on one session apart. While the other query's
\* user turn is in flight, a query that read it as the latest message sends
\* generation a sequence ending with the other query's question; a query that
\* did not read it and read its own turn as the latest sends a sequence ending
\* with its own question. Both happen.
C19_SameSessionQueriesInterleave ==
    \A w \in Workers : \A v \in Workers \ {w} :
        (pc[w] = "generate" /\ TurnInFlight(v) /\ session_id[v] = session_id[w]) =>
            /\ OnlyLatestRead(w, user_msg[v]) =>
                  Last(openai_messages[w]) = [role |-> "user", content |-> question[v]]
            /\ (~Read(w, user_msg[v]) /\ OnlyLatestRead(w, user_msg[w])) =>
                  Last(openai_messages[w]) = [role |-> "user", content |-> question[w]]

\* two queries with different questions on one session, both before generation:
\* the prompt of the one that stored its turn first ends with the other's
\* question, the prompt of the other with its own
C19_Witness ==
    \E w \in Workers : \E v \in Workers \ {w} :
        /\ pc[w] = "generate" /\ pc[v] = "generate"
        /\ session_id[v] = session_id[w]
        /\ question[v] # question[w]
        /\ user_msg[w] < user_msg[v]
        /\ OnlyLatestRead(w, user_msg[v])
        /\ Last(openai_messages[w]).content = question[v]
        /\ Last(openai_messages[v]).content = question[v]

\* C20: a call of answer_question for which retrieval returned zero chunks has
\* called the generation model, with a prompt that holds no chunk, and returns
\* the generated text as answer, with empty sources.
C20_StatelessEmptyRetrievalGenerates ==
    \A w \in Workers :
        (pc[w] = "done" /\ endpoint[w] = "answer_question" /\ docs[w] = << >>) =>
            /\ "generate" \in Range(steps[w])
            /\ openai_messages[w] # << >>
            /\ result[w].answer \in Answers
            /\ result[w].sources = << >>

\* both workers have completed a query on the session sid, which existed when
\* each was received, and no other query has been received
BothSucceeded(w, v, sid) ==
    /\ w # v
    /\ pc[w] = "done" /\ pc[v] = "done"
    /\ started = 2
    /\ request_sid[w] = sid /\ request_sid[v] = sid
    /\ session_id[w] = sid /\ session_id[v] = sid

\* the assistant messages stored for the query of worker w
AssistantRows(w) ==
    {i \in OwnRows(w) : /\ i > user_msg[w]
                        /\ messages[i].role = "assistant"
                        /\ messages[i].content = result[w].answer}

\* C21: no step changes or removes a stored message, and a step stores at most
\* one, in a session that exists, with role user or assistant, so the messages
\* of every other session stay as they are; after two queries on one existing
\* session have both succeeded, in any interleaving, the session holds exactly
\* four messages more than before: the user message of each query and, stored
\* after it, that query's assistant message.
C21_NoMessageLost ==
    [][/\ Len(messages) <= Len(messages') /\ Len(messages') <= Len(messages) + 1
       /\ \A i \in 1 .. Len(messages) : messages'[i] = messages[i]
       /\ \A i \in 1 .. Len(messages') :
            i > Len(messages) =>
               /\ messages'[i].session_id \in SessionIds(sessions')
               /\ messages'[i].role \in {"user", "assistant"}
               /\ messages'[i].id = i
       /\ \A w \in Workers : \A v \in Workers : \A sid \in SessionIds(sessions') :
            BothSucceeded(w, v, sid)' =>
               \E before \in 0 .. Len(messages') : \E aw, av \in 1 .. Len(messages') :
                  /\ before < user_msg'[w] /\ before < user_msg'[v]
                  /\ user_msg'[w] # user_msg'[v]
                  /\ aw # av
                  /\ aw > user_msg'[w] /\ av > user_msg'[v]
                  /\ RowsOf(messages', sid) \cap (before + 1 .. Len(messages')) =
                        {user_msg'[w], user_msg'[v], aw, av}
                  /\ messages'[user_msg'[w]].role = "user"
                  /\ messages'[user_msg'[w]].content = question'[w]
                  /\ messages'[user_msg'[v]].role = "user"
                  /\ messages'[user_msg'[v]].content = question'[v]
                  /\ messages'[aw].role = "assistant"
                  /\ messages'[aw].content = result'[w].answer
                  /\ messages'[av].role = "assistant"
                  /\ messages'[av].content = result'[v].answer
                  /\ Cardinality(RowsOf(messages', sid)) =
                        Cardinality(RowsOf(messages', sid) \cap (1 .. before)) + 4]_vars

\* two queries on the seeded session have both succeeded after their appends
\* interleaved: user, user, assistant, assistant
C21_Witness ==
    \E w \in Workers : \E v \in Workers \ {w} : \E sid \in SessionIds(sessions) :
        /\ BothSucceeded(w, v, sid)
        /\ user_msg[w] < user_msg[v]
        /\ \A a \in AssistantRows(w) : a > user_msg[v]
        /\ AssistantRows(w) # {} /\ AssistantRows(v) # {}
        /\ Cardinality(RowsOf(messages, sid)) = CHAT_HISTORY_LIMIT + 4

====
